---- MODULE Spec2Model ----
(***************************************************************************)
(* Model of dni (src/dni/main.py): the `setup` command.                    *)
(*                                                                         *)
(* A run is: typer/click processes the two source options through their    *)
(* callbacks (validate_url / validate_github, then validate_sources), and  *)
(* if no callback raises, the body of setup_devcontainer runs: container   *)
(* start, the apt probe, three probe/install pairs and the final apply.    *)
(* Every external command goes through run_command (subprocess.run); a    *)
(* call is modelled as two steps, the call being issued and the child      *)
(* process ending, so that the blocking of the caller is visible.          *)
(*                                                                         *)
(* User supplied strings are sequences of one-character strings so that    *)
(* the two regular expressions can be evaluated on them; text that the     *)
(* program only formats and passes on is a TLA+ string.                    *)
(***************************************************************************)
EXTENDS Integers, Sequences, FiniteSets, TLC

\* Highest exit status a child process returns in the model (0..MaxRet).
MaxRet == 2

\* Python's None, as a value that is no sequence of characters.
None == << "None" >>

----------------------------------------------------------------------------
\* Characters and the two patterns

Lower == {"a","b","c","d","e","f","g","h","i","j","k","l","m",
          "n","o","p","q","r","s","t","u","v","w","x","y","z"}
Upper == {"A","B","C","D","E","F","G","H","I","J","K","L","M",
          "N","O","P","Q","R","S","T","U","V","W","X","Y","Z"}
Digit == {"0","1","2","3","4","5","6","7","8","9"}

\* \w of the re module, on ASCII input
WordChar == Lower \cup Upper \cup Digit \cup {"_"}
\* [\w\-\.]
HostChar == WordChar \cup {"-", "."}
\* [A-Za-z0-9_.-]
GithubChar == Lower \cup Upper \cup Digit \cup {"_", ".", "-"}

AllIn(s, lo, hi, class) == \A q \in lo..hi : s[q] \in class

\* `$`: the end of the string, or just before a newline that ends the string
AtEnd(s, i) == i = Len(s) + 1 \/ (i = Len(s) /\ s[i] = "\n")

\* `.*` followed by `$`, from position i on: `.` matches all but a newline
DotStarToEnd(s, i) ==
    \E m \in (i-1)..Len(s) :
        /\ \A q \in i..m : s[q] # "\n"
        /\ AtEnd(s, m + 1)

HasPrefix(s, p) == Len(s) >= Len(p) /\ SubSeq(s, 1, Len(p)) = p

\* url_pattern.match(value) with r"^https?://[\w\-\.]+\.[a-z]{2,}(/.*)?$"
\* h: index of the last character of "http(s)://", d: index of the dot that
\* precedes the top-level label, e: index of the label's last character.
url_pattern_match(s) ==
    \E scheme \in { <<"h","t","t","p">>, <<"h","t","t","p","s">> } :
        LET h == Len(scheme) + 3 IN
        /\ HasPrefix(s, scheme \o <<":","/","/">>)
        /\ \E d \in (h+2)..Len(s) :
              /\ AllIn(s, h + 1, d - 1, HostChar)
              /\ s[d] = "."
              /\ \E e \in (d+2)..Len(s) :
                    /\ AllIn(s, d + 1, e, Lower)
                    /\ \/ AtEnd(s, e + 1)
                       \/ /\ e + 1 <= Len(s)
                          /\ s[e + 1] = "/"
                          /\ DotStarToEnd(s, e + 2)

\* github_pattern.match(value) with r"^[A-Za-z0-9_.-]+/[A-Za-z0-9_.-]+$"
github_pattern_match(s) ==
    \E k \in 2..Len(s) :
        /\ AllIn(s, 1, k - 1, GithubChar)
        /\ s[k] = "/"
        /\ \E e \in (k+1)..Len(s) :
              /\ AllIn(s, k + 1, e, GithubChar)
              /\ AtEnd(s, e + 1)

----------------------------------------------------------------------------
\* The option callbacks.  A callback either returns a value or raises
\* typer.BadParameter; the message is kept up to its fixed part.

Returned(v) == [raised |-> FALSE, value |-> v, msg |-> ""]
BadParameter(m) == [raised |-> TRUE, value |-> None, msg |-> m]

MsgInvalidUrl == "Invalid URL"
MsgInvalidGithub == "Invalid GitHub repo format. Use format: username/repo"
MsgBoth == "Cannot specify both --repo and --github"
MsgNeither == "Must specify either --repo or --github"

validate_url(value) ==
    IF value = None THEN Returned(None)
    ELSE IF ~url_pattern_match(value) THEN BadParameter(MsgInvalidUrl)
    ELSE Returned(value)

validate_github(value) ==
    IF value = None THEN Returned(None)
    ELSE IF ~github_pattern_match(value) THEN BadParameter(MsgInvalidGithub)
    ELSE Returned(value)

\* ctx.params.get(name): None for a parameter not processed yet
ParamsGet(ctxparams, name) ==
    IF name \in DOMAIN ctxparams THEN ctxparams[name] ELSE None

\* validate_sources with the "neither" test made in the callback of --repo
validate_sources_WrongParam(ctxparams, name, value) ==
    LET other_param == IF name = "repo" THEN "github" ELSE "repo"
        other_value == ParamsGet(ctxparams, other_param)
    IN  IF value # None /\ other_value # None THEN BadParameter(MsgBoth)
        ELSE IF name = "repo" /\ value = None
                /\ ParamsGet(ctxparams, "repo") = None
             THEN BadParameter(MsgNeither)
        ELSE Returned(value)

\* validate_sources with the "both" test made in the callback of --github only
validate_sources_BothInGithub(ctxparams, name, value) ==
    LET other_param == IF name = "repo" THEN "github" ELSE "repo"
        other_value == ParamsGet(ctxparams, other_param)
    IN  IF name = "github" /\ value # None /\ other_value # None
        THEN BadParameter(MsgBoth)
        ELSE IF name = "github" /\ value = None
                /\ ParamsGet(ctxparams, "repo") = None
             THEN BadParameter(MsgNeither)
        ELSE Returned(value)

validate_sources(ctxparams, name, value) ==
    LET other_param == IF name = "repo" THEN "github" ELSE "repo"
        other_value == ParamsGet(ctxparams, other_param)
    IN  IF value # None /\ other_value # None THEN BadParameter(MsgBoth)
        ELSE IF name = "github" /\ value = None
                /\ ParamsGet(ctxparams, "repo") = None
             THEN BadParameter(MsgNeither)
        ELSE Returned(value)

\* the callback= lambdas of the two options
OptionCallback(ctxparams, name, value) ==
    LET v == IF name = "repo" THEN validate_url(value)
             ELSE validate_github(value)
    IN  IF v.raised THEN v ELSE validate_sources(ctxparams, name, v.value)

----------------------------------------------------------------------------
\* Formatting

RECURSIVE Join(_)
\* a sequence of characters as one string
Join(s) == IF s = <<>> THEN "" ELSE s[1] \o Join(Tail(s))

\* str(v) as an f-string renders it
Str(v) == IF v = None THEN "None" ELSE Join(v)

\* characters shlex.quote leaves alone: [\w@%+=:,./-]
SafeChar == WordChar \cup {"@", "%", "+", "=", ":", ",", ".", "/", "-"}

RECURSIVE QuoteBody(_)
\* s.replace("'", "'\"'\"'")
QuoteBody(s) ==
    IF s = <<>> THEN ""
    ELSE (IF s[1] = "'" THEN "'\"'\"'" ELSE s[1]) \o QuoteBody(Tail(s))

shlex_quote(s) ==
    IF s = <<>> THEN "''"
    ELSE IF AllIn(s, 1, Len(s), SafeChar) THEN Join(s)
    ELSE "'" \o QuoteBody(s) \o "'"

----------------------------------------------------------------------------
\* The commands

\* the executables the pipeline looks for, by name
ToolName == [apt |-> <<"a","p","t">>,
             curl |-> <<"c","u","r","l">>,
             nix |-> <<"n","i","x">>,
             hm |-> <<"h","o","m","e","-","m","a","n","a","g","e","r">>]

\* the three tools that are installed when absent, in program order
Tools == <<"curl", "nix", "hm">>

\* remote_env: the dict's items in order; <<>> stands for None and for {}
NoEnv == <<>>
nix_env == << <<"NIX_CONFIG", "experimental-features = nix-command flakes">> >>

RECURSIVE RemoteEnvArgs(_)
RemoteEnvArgs(env) ==
    IF env = <<>> THEN <<>>
    ELSE <<"--remote-env", env[1][1] \o "=" \o env[1][2]>>
         \o RemoteEnvArgs(Tail(env))
\* devcontainer_exec with remote_env left out of the argv
devcontainer_exec_EnvDropped(workspace_folder, command, remote_env) ==
    <<"devcontainer", "exec", "--workspace-folder", workspace_folder>>
    \o <<"bash", "-c", command>>

\* the argv devcontainer_exec builds
devcontainer_exec(workspace_folder, command, remote_env) ==
    <<"devcontainer", "exec", "--workspace-folder", workspace_folder>>
    \o RemoteEnvArgs(remote_env)
    \o <<"bash", "-c", command>>

\* the argv command_in_container_available builds
command_in_container_available(workspace_folder, command) ==
    <<"devcontainer", "exec", "--workspace-folder", workspace_folder,
      "bash", "-c", "command -v " \o shlex_quote(command)>>

\* start_devcontainer with the purge flag not looked at
start_devcontainer_NoPurge(workspace_dir, purge) ==
    <<"devcontainer", "up", "--workspace-folder", workspace_dir>>

\* the argv start_devcontainer builds
start_devcontainer(workspace_dir, purge) ==
    <<"devcontainer", "up", "--workspace-folder", workspace_dir>>
    \o (IF purge THEN <<"--remove-existing-container">> ELSE <<>>)

InstallCommand ==
    [curl |-> "sudo apt update && sudo apt install -y " \o "curl",
     nix |-> "curl -L https://nixos.org/nix/install | "
             \o "sh -s -- --no-daemon --nix-extra-conf-file <(echo 'sandbox = false') && "
             \o ". $HOME/.nix-profile/etc/profile.d/nix.sh",
     hm |-> "nix-channel --add https://github.com/nix-community/home-manager/archive/master.tar.gz home-manager &> /dev/null "
            \o "nix-channel --update && nix-shell '<home-manager>' -A install &> /dev/null"]

\* the progress line printed before an install, if any
InstallEcho ==
    [curl |-> <<>>,
     nix |-> <<"Installing nix...">>,
     hm |-> <<"Installing home-manager...">>]

\* `x if github else repo`: None and the empty string are false
Truthy(v) == v # None /\ v # <<>>

formatted_nix_input(repo, github) ==
    IF Truthy(github) THEN "github:" \o Str(github) ELSE Str(repo)

ApplyCommand(repo, github, config) ==
    "nix run --inputs-from " \o formatted_nix_input(repo, github)
    \o " home-manager -- "
    \o "switch --flake " \o formatted_nix_input(repo, github)
    \o "#" \o config \o " -b backup"

----------------------------------------------------------------------------
\* The run

VARIABLES
    args,        \* the command line: options given (in order), their values,
                 \* config, purge, workspace_dir
    params,      \* ctx.params: the options processed so far
    pc,          \* <<position in the program, tool being handled>>
    calls,       \* every run_command call so far, with what came of it
    echoed,      \* the lines printed with typer.echo
    exc,         \* the exception that ended the run, if any
    exitStatus   \* the exit status of the process; -1 while it runs

vars == <<args, params, pc, calls, echoed, exc, exitStatus>>

\* values tried for --repo
UrlCandidates ==
    { <<>>,
      <<"h","t","t","p",":","/","/","a",".","i","o">>,
      <<"h","t","t","p","s",":","/","/","a",".","i","o","/","x">>,
      <<"f","t","p",":","/","/","a",".","i","o">>,
      <<"h","t","t","p","s",":","/","/","n","o","h","o","s","t">> }

\* values tried for --github
GithubCandidates ==
    { <<>>,
      <<"o","/","r">>,
      <<"o","c","t","o","c","a","t">>,
      <<"o","/","r"," ","x">>,
      <<"o","/","r","\n">> }

ConfigNames == {"dev", "home"}
Workspaces == {"."}

\* the source options as they can appear on the command line
CmdLines == { <<>>, <<"repo">>, <<"github">>,
              <<"repo", "github">>, <<"github", "repo">> }

InSeq(x, s) == \E i \in 1..Len(s) : s[i] = x

\* the value click hands to the option's callback: the default when not given
RawValue(a, name) == IF InSeq(name, a.cmdline) THEN a[name] ELSE None

\* click's iter_params_for_processing: the options given, in the order given,
\* then the others in declaration order
ProcessingOrder(a) ==
    a.cmdline \o SelectSeq(<<"repo", "github">>, LAMBDA n : ~InSeq(n, a.cmdline))

NoExc == [type |-> "none", msg |-> ""]
Running == [state |-> "running", returncode |-> -1]
Exited(r) == [state |-> "exited", returncode |-> r]
Raised == [state |-> "raised", returncode |-> -1]

\* subprocess.run(cmd, check=False, ...): the child's exit status, whatever
\* it is, or FileNotFoundError when the executable cannot be started
run_command == {Exited(r) : r \in 0..MaxRet} \cup {Raised}

Init ==
    /\ args \in { a \in [cmdline : CmdLines,
                         repo : UrlCandidates \cup {None},
                         github : GithubCandidates \cup {None},
                         config : ConfigNames,
                         purge : BOOLEAN,
                         workspace_dir : Workspaces] :
                    /\ (a.repo = None) <=> ~InSeq("repo", a.cmdline)
                    /\ (a.github = None) <=> ~InSeq("github", a.cmdline) }
    /\ params = <<>>
    /\ pc = <<"parse", "-">>
    /\ calls = <<>>
    /\ echoed = <<>>
    /\ exc = NoExc
    /\ exitStatus = -1

Done == <<"done", "-">>

\* the shape of the state
TypeOK ==
    /\ args.cmdline \in CmdLines
    /\ args.purge \in BOOLEAN
    /\ args.config \in ConfigNames
    /\ args.workspace_dir \in Workspaces
    /\ DOMAIN params \subseteq {"repo", "github"}
    /\ pc[1] \in {"parse", "start", "start_wait", "apt", "apt_wait", "probe",
                  "probe_wait", "install", "install_wait", "apply",
                  "apply_wait", "done"}
    /\ pc[2] \in {"-", "curl", "nix", "hm"}
    /\ \A i \in DOMAIN calls :
          /\ calls[i].outcome \in run_command \cup {Running}
          /\ calls[i].capture_output \in BOOLEAN
          /\ calls[i].cmd[1] = "devcontainer"
    /\ exc.type \in {"none", "BadParameter", "CalledProcessError",
                     "FileNotFoundError"}
    /\ exitStatus \in {-1, 0, 1, 2}
    /\ (exitStatus = -1) <=> (pc # Done)

\* an exception leaves the command: the process ends with `status`
Raise(type, msg, status) ==
    /\ exc' = [type |-> type, msg |-> msg]
    /\ pc' = Done
    /\ exitStatus' = status

\* the command function returns: the process ends with status 0
Return ==
    /\ pc' = Done
    /\ exitStatus' = 0
    /\ UNCHANGED exc

Echo(lines) == echoed' = echoed \o lines

Call(cmd, show_output) ==
    calls' = Append(calls, [cmd |-> cmd, capture_output |-> ~show_output,
                            outcome |-> Running])

Finish(o) == calls' = [calls EXCEPT ![Len(calls)].outcome = o]

\* ProcessParam with a callback's error noted but not ending the run
ProcessParam_NoAbort ==
    /\ pc = <<"parse", "-">>
    /\ LET order == ProcessingOrder(args)
           name == order[Cardinality(DOMAIN params) + 1]
           r == OptionCallback(params, name, RawValue(args, name))
       IN  /\ params' = params @@ (name :> r.value)
           /\ pc' = IF Cardinality(DOMAIN params) + 1 = Len(order)
                    THEN <<"start", "-">> ELSE pc
           /\ exc' = IF r.raised THEN [type |-> "BadParameter", msg |-> r.msg]
                     ELSE exc
           /\ UNCHANGED exitStatus
    /\ UNCHANGED <<args, calls, echoed>>

\* click processes the next option: its callback runs
ProcessParam ==
    /\ pc = <<"parse", "-">>
    /\ LET order == ProcessingOrder(args)
           name == order[Cardinality(DOMAIN params) + 1]
           r == OptionCallback(params, name, RawValue(args, name))
       IN  IF r.raised
           THEN /\ Raise("BadParameter", r.msg, 2)
                /\ UNCHANGED params
           ELSE /\ params' = params @@ (name :> r.value)
                /\ pc' = IF Cardinality(DOMAIN params) + 1 = Len(order)
                         THEN <<"start", "-">> ELSE pc
                /\ UNCHANGED <<exc, exitStatus>>
    /\ UNCHANGED <<args, calls, echoed>>

\* AfterTool with the home-manager block left out
AfterTool_SkipHm(t) ==
    IF t = "curl" THEN <<"probe", "nix">> ELSE <<"apply", "-">>

\* the tool after t in the pipeline, or the apply step
AfterTool(t) ==
    IF t = "curl" THEN <<"probe", "nix">>
    ELSE IF t = "nix" THEN <<"probe", "hm">>
    ELSE <<"apply", "-">>

\* setup_devcontainer, line 125: start_devcontainer is called
StartCall ==
    /\ pc = <<"start", "-">>
    /\ Echo(<<"Starting devcontainer in " \o args.workspace_dir \o "...">>)
    /\ Call(start_devcontainer(args.workspace_dir, args.purge), TRUE)
    /\ pc' = <<"start_wait", "-">>
    /\ UNCHANGED <<args, params, exc, exitStatus>>

\* lines 125-129: `devcontainer up` is over
StartReturn ==
    /\ pc = <<"start_wait", "-">>
    /\ \E o \in run_command :
          /\ Finish(o)
          /\ IF o.state = "raised"
             THEN /\ Raise("FileNotFoundError", "", 1)
                  /\ UNCHANGED echoed
             ELSE IF o.returncode # 0
             THEN /\ Echo(<<"Failed to run container!">>)
                  /\ Return
             ELSE /\ Echo(<<"Devcontainer started successfully! Start environment setup...">>)
                  /\ pc' = <<"apt", "-">>
                  /\ UNCHANGED <<exc, exitStatus>>
    /\ UNCHANGED <<args, params>>

\* lines 131-132: the probe for apt is called
AptProbeCall ==
    /\ pc = <<"apt", "-">>
    /\ Echo(<<"Installing system dependencies...">>)
    /\ Call(command_in_container_available(args.workspace_dir, ToolName["apt"]), FALSE)
    /\ pc' = <<"apt_wait", "-">>
    /\ UNCHANGED <<args, params, exc, exitStatus>>

\* AptProbeReturn with the result of the probe not looked at
AptProbeReturn_Ignored ==
    /\ pc = <<"apt_wait", "-">>
    /\ \E o \in run_command :
          /\ Finish(o)
          /\ IF o.state = "raised"
             THEN /\ Raise("FileNotFoundError", "", 1)
                  /\ UNCHANGED echoed
             ELSE /\ pc' = <<"probe", Tools[1]>>
                  /\ UNCHANGED <<echoed, exc, exitStatus>>
    /\ UNCHANGED <<args, params>>

\* lines 132-134: the probe for apt is over
AptProbeReturn ==
    /\ pc = <<"apt_wait", "-">>
    /\ \E o \in run_command :
          /\ Finish(o)
          /\ IF o.state = "raised"
             THEN /\ Raise("FileNotFoundError", "", 1)
                  /\ UNCHANGED echoed
             ELSE IF ~(o.returncode = 0)
             THEN /\ Echo(<<"System doesn't contain supported package manager!">>)
                  /\ Return
             ELSE /\ pc' = <<"probe", Tools[1]>>
                  /\ UNCHANGED <<echoed, exc, exitStatus>>
    /\ UNCHANGED <<args, params>>

\* ProbeCall with the command started and not waited for
ProbeCall_NoWait(t) ==
    /\ pc = <<"probe", t>>
    /\ Call(command_in_container_available(args.workspace_dir, ToolName[t]), FALSE)
    /\ pc' = AfterTool(t)
    /\ UNCHANGED <<args, params, echoed, exc, exitStatus>>

\* lines 137, 142, 152: the probe for a tool is called
ProbeCall(t) ==
    /\ pc = <<"probe", t>>
    /\ Call(command_in_container_available(args.workspace_dir, ToolName[t]), FALSE)
    /\ pc' = <<"probe_wait", t>>
    /\ UNCHANGED <<args, params, echoed, exc, exitStatus>>

\* ProbeReturn with the test of the probe's result dropped: always install
ProbeReturn_AlwaysInstall(t) ==
    /\ pc = <<"probe_wait", t>>
    /\ \E o \in run_command :
          /\ Finish(o)
          /\ IF o.state = "raised"
             THEN Raise("FileNotFoundError", "", 1)
             ELSE /\ pc' = <<"install", t>>
                  /\ UNCHANGED <<exc, exitStatus>>
    /\ UNCHANGED <<args, params, echoed>>

\* ProbeReturn with "absent" read from exit status 1 only
ProbeReturn_OnlyStatusOne(t) ==
    /\ pc = <<"probe_wait", t>>
    /\ \E o \in run_command :
          /\ Finish(o)
          /\ IF o.state = "raised"
             THEN Raise("FileNotFoundError", "", 1)
             ELSE /\ pc' = IF o.returncode = 1 THEN <<"install", t>>
                           ELSE AfterTool(t)
                  /\ UNCHANGED <<exc, exitStatus>>
    /\ UNCHANGED <<args, params, echoed>>

\* the probe is over: on to the install, or past it
ProbeReturn(t) ==
    /\ pc = <<"probe_wait", t>>
    /\ \E o \in run_command :
          /\ Finish(o)
          /\ IF o.state = "raised"
             THEN Raise("FileNotFoundError", "", 1)
             ELSE /\ pc' = IF ~(o.returncode = 0) THEN <<"install", t>>
                           ELSE AfterTool(t)
                  /\ UNCHANGED <<exc, exitStatus>>
    /\ UNCHANGED <<args, params, echoed>>

\* lines 138, 143-145, 153-155: the install command of a tool is called
InstallCall(t) ==
    /\ pc = <<"install", t>>
    /\ Echo(InstallEcho[t])
    /\ Call(devcontainer_exec(args.workspace_dir, InstallCommand[t], NoEnv), TRUE)
    /\ pc' = <<"install_wait", t>>
    /\ UNCHANGED <<args, params, exc, exitStatus>>

\* InstallReturn without .check_returncode(): the result is ignored
InstallReturn_Unchecked(t) ==
    /\ pc = <<"install_wait", t>>
    /\ \E o \in run_command :
          /\ Finish(o)
          /\ IF o.state = "raised"
             THEN Raise("FileNotFoundError", "", 1)
             ELSE /\ pc' = AfterTool(t)
                  /\ UNCHANGED <<exc, exitStatus>>
    /\ UNCHANGED <<args, params, echoed>>

\* InstallReturn with a failed install tried again
InstallReturn_Retry(t) ==
    /\ pc = <<"install_wait", t>>
    /\ \E o \in run_command :
          /\ Finish(o)
          /\ IF o.state = "raised"
             THEN Raise("FileNotFoundError", "", 1)
             ELSE /\ pc' = IF o.returncode # 0 THEN <<"install", t>>
                           ELSE AfterTool(t)
                  /\ UNCHANGED <<exc, exitStatus>>
    /\ UNCHANGED <<args, params, echoed>>

\* InstallReturn with the tool probed again after its install
InstallReturn_Reprobe(t) ==
    /\ pc = <<"install_wait", t>>
    /\ \E o \in run_command :
          /\ Finish(o)
          /\ IF o.state = "raised"
             THEN Raise("FileNotFoundError", "", 1)
             ELSE IF o.returncode # 0
             THEN Raise("CalledProcessError", "", 1)
             ELSE /\ pc' = <<"probe", t>>
                  /\ UNCHANGED <<exc, exitStatus>>
    /\ UNCHANGED <<args, params, echoed>>

\* .check_returncode() on the install's result
InstallReturn(t) ==
    /\ pc = <<"install_wait", t>>
    /\ \E o \in run_command :
          /\ Finish(o)
          /\ IF o.state = "raised"
             THEN Raise("FileNotFoundError", "", 1)
             ELSE IF o.returncode # 0
             THEN Raise("CalledProcessError", "", 1)
             ELSE /\ pc' = AfterTool(t)
                  /\ UNCHANGED <<exc, exitStatus>>
    /\ UNCHANGED <<args, params, echoed>>

\* lines 161-174: the apply command is built and called
ApplyCall ==
    /\ pc = <<"apply", "-">>
    /\ Echo(<<"Applying personal configuration...">>)
    /\ Call(devcontainer_exec(args.workspace_dir,
                              ApplyCommand(params["repo"], params["github"],
                                           args.config),
                              nix_env), TRUE)
    /\ pc' = <<"apply_wait", "-">>
    /\ UNCHANGED <<args, params, exc, exitStatus>>

\* ApplyReturn without .check_returncode()
ApplyReturn_Unchecked ==
    /\ pc = <<"apply_wait", "-">>
    /\ \E o \in run_command :
          /\ Finish(o)
          /\ IF o.state = "raised"
             THEN /\ Raise("FileNotFoundError", "", 1)
                  /\ UNCHANGED echoed
             ELSE /\ Echo(<<"Devcontainer setup completed successfully!">>)
                  /\ Return
    /\ UNCHANGED <<args, params>>

\* lines 174-176: .check_returncode() on the apply's result, then the end
ApplyReturn ==
    /\ pc = <<"apply_wait", "-">>
    /\ \E o \in run_command :
          /\ Finish(o)
          /\ IF o.state = "raised"
             THEN /\ Raise("FileNotFoundError", "", 1)
                  /\ UNCHANGED echoed
             ELSE IF o.returncode # 0
             THEN /\ Raise("CalledProcessError", "", 1)
                  /\ UNCHANGED echoed
             ELSE /\ Echo(<<"Devcontainer setup completed successfully!">>)
                  /\ Return
    /\ UNCHANGED <<args, params>>

ToolSet == {Tools[i] : i \in 1..Len(Tools)}

Next ==
    \/ ProcessParam
    \/ StartCall
    \/ StartReturn
    \/ AptProbeCall
    \/ AptProbeReturn
    \/ \E t \in ToolSet : ProbeCall(t)
    \/ \E t \in ToolSet : ProbeReturn(t)
    \/ \E t \in ToolSet : InstallCall(t)
    \/ \E t \in ToolSet : InstallReturn(t)
    \/ ApplyCall
    \/ ApplyReturn

Spec == Init /\ [][Next]_vars

----------------------------------------------------------------------------
\* Reading the log of calls

AllTools == ToolSet \cup {"apt"}

IsStartCmd(cmd) == cmd[2] = "up"
IsProbeCmd(cmd, t) ==
    cmd = command_in_container_available(args.workspace_dir, ToolName[t])
IsInstallCmd(cmd, t) ==
    cmd = devcontainer_exec(args.workspace_dir, InstallCommand[t], NoEnv)
IsAnyProbe(cmd) == \E t \in AllTools : IsProbeCmd(cmd, t)
IsAnyInstall(cmd) == \E t \in ToolSet : IsInstallCmd(cmd, t)
IsApplyCmd(cmd) == cmd[2] = "exec" /\ ~IsAnyProbe(cmd) /\ ~IsAnyInstall(cmd)

ExitedWith(c, zero) ==
    /\ c.outcome.state = "exited"
    /\ (c.outcome.returncode = 0) <=> zero

Idx == DOMAIN calls
StartCalls == {i \in Idx : IsStartCmd(calls[i].cmd)}
ProbeCalls(t) == {i \in Idx : IsProbeCmd(calls[i].cmd, t)}
InstallCalls(t) == {i \in Idx : IsInstallCmd(calls[i].cmd, t)}
ApplyCalls == {i \in Idx : IsApplyCmd(calls[i].cmd)}

\* the probe for t said "present" / "absent"
ProbedPresent(t) == \E i \in ProbeCalls(t) : ExitedWith(calls[i], TRUE)
ProbedAbsent(t) == \E i \in ProbeCalls(t) : ExitedWith(calls[i], FALSE)

\* call i is a step that failed: anything that ended non-zero, except the
\* probe of a tool that can be installed, where non-zero only means "absent"
StepFailedAt(i) ==
    /\ ExitedWith(calls[i], FALSE)
    /\ ~(\E t \in ToolSet : IsProbeCmd(calls[i].cmd, t))

StepFailed == \E i \in Idx : StepFailedAt(i)

CompletedMsg == "Devcontainer setup completed successfully!"
Completed == \E k \in DOMAIN echoed : echoed[k] = CompletedMsg

----------------------------------------------------------------------------
\* C1 (fail-fast): once a step has failed (container start, the apt probe,
\* an install or the apply ended non-zero), the run is over: the failed call
\* is the last call there is, so no later probe, install or apply and no
\* compensating command is issued.
C1_FailFast ==
    \A i \in Idx : StepFailedAt(i) => (i = Len(calls) /\ pc = Done)

\* the install of nix failed after the install of curl had succeeded
C1_Witness ==
    /\ pc = Done
    /\ \E i \in InstallCalls("curl") : ExitedWith(calls[i], TRUE)
    /\ \E i \in InstallCalls("nix") : ExitedWith(calls[i], FALSE)

\* C2 (idempotency): for each of curl, nix and home-manager, a probe that
\* says "present" is followed by no install command of that tool, and a probe
\* that says "absent" by exactly one (issued as the program's next step);
\* no install is issued without the probe having said "absent".
C2_Idempotent ==
    \A t \in ToolSet :
        /\ ProbedPresent(t) => Cardinality(InstallCalls(t)) = 0
        /\ ProbedAbsent(t) =>
              Cardinality(InstallCalls(t)) = (IF pc = <<"install", t>> THEN 0 ELSE 1)
        /\ Cardinality(InstallCalls(t)) > 0 => ProbedAbsent(t)
        /\ Cardinality(ProbeCalls(t)) <= 1

\* a finished run in which curl was present and nix was absent
C2_Witness ==
    /\ pc = Done
    /\ ProbedPresent("curl") /\ Cardinality(InstallCalls("curl")) = 0
    /\ ProbedAbsent("nix") /\ Cardinality(InstallCalls("nix")) = 1

----------------------------------------------------------------------------
\* The outcome of source selection

ParseOver == pc # <<"parse", "-">>

Given(name) == InSeq(name, args.cmdline)
WellFormed(name) ==
    /\ Given(name)
    /\ IF name = "repo" THEN url_pattern_match(args.repo)
       ELSE github_pattern_match(args.github)
Malformed(name) == Given(name) /\ ~WellFormed(name)

MissingSource == exc = [type |-> "BadParameter", msg |-> MsgNeither]
ConflictingSources == exc = [type |-> "BadParameter", msg |-> MsgBoth]
InvalidFormat ==
    /\ exc.type = "BadParameter"
    /\ exc.msg \in {MsgInvalidUrl, MsgInvalidGithub}

\* the body of the command is entered with exactly one source, the one given
ValidSource ==
    /\ exc.type # "BadParameter"
    /\ DOMAIN params = {"repo", "github"}
    /\ params["repo"] = args.repo
    /\ params["github"] = args.github
    /\ (params["repo"] = None) # (params["github"] = None)

\* a candidate is present when its option is given with a non-empty value
Present(name) == Given(name) /\ args[name] # <<>>

\* C3 as claimed, on the candidates that are plainly absent (option not
\* given) or plainly present (given, not empty): both absent gives
\* MissingSource, both present gives ConflictingSources, exactly one present
\* gives a valid source when it is well-formed and InvalidFormat when not.
C3_Original ==
    ParseOver =>
        /\ (~Given("repo") /\ ~Given("github")) => MissingSource
        /\ (Present("repo") /\ Present("github")) => ConflictingSources
        /\ \A n \in {"repo", "github"} :
              LET o == IF n = "repo" THEN "github" ELSE "repo" IN
              (Present(n) /\ ~Given(o)) =>
                  IF WellFormed(n) THEN ValidSource ELSE InvalidFormat

\* C3, amended: once the options are processed exactly one of these holds.
\* Neither option given: MissingSource.  Some given candidate malformed (the
\* empty string is malformed), whether one or both are given: InvalidFormat.
\* Both given and both well-formed: ConflictingSources.  Exactly one given
\* and well-formed: a valid source, and the run proceeds.  Well-formed is
\* what validate_url / validate_github accept, malformed what they reject.
C3_SourceSelection ==
    ParseOver =>
        /\ (~Given("repo") /\ ~Given("github")) => MissingSource
        /\ (Malformed("repo") \/ Malformed("github")) => InvalidFormat
        /\ (WellFormed("repo") /\ WellFormed("github")) => ConflictingSources
        /\ \A n \in {"repo", "github"} :
              LET o == IF n = "repo" THEN "github" ELSE "repo" IN
              (WellFormed(n) /\ ~Given(o)) => ValidSource
        /\ Cardinality({b \in {MissingSource, ConflictingSources, InvalidFormat,
                               ValidSource} : b}) = 1

\* both given, the URL well-formed and the repo reference malformed:
\* InvalidFormat, not ConflictingSources
C3_Witness ==
    /\ ParseOver
    /\ WellFormed("repo") /\ Malformed("github")
    /\ InvalidFormat

\* C4: a validation error aborts before any side effect: while the options
\* are processed, and in a run that source selection rejected (InvalidFormat,
\* ConflictingSources, MissingSource), no `devcontainer up` and no remote
\* command has been issued.
C4_NoSideEffect ==
    (~ParseOver \/ exc.type = "BadParameter") => calls = <<>>

\* a finished run rejected with ConflictingSources
C4_Witness == pc = Done /\ ConflictingSources /\ exitStatus # -1

----------------------------------------------------------------------------
\* The remote commands of a run

\* the argv of the calls after the first (`devcontainer up`), in order
AfterStart == [i \in 1..(Len(calls) - 1) |-> calls[i + 1].cmd]

ProbeCmd(t) == command_in_container_available(args.workspace_dir, ToolName[t])
InstallCmd(t) == devcontainer_exec(args.workspace_dir, InstallCommand[t], NoEnv)
ApplyCmd ==
    devcontainer_exec(args.workspace_dir,
                      ApplyCommand(params["repo"], params["github"], args.config),
                      nix_env)

\* one install command per tool probed absent, in program order
RECURSIVE InstallsOfAbsent(_)
InstallsOfAbsent(ts) ==
    IF ts = <<>> THEN <<>>
    ELSE (IF ProbedAbsent(ts[1]) THEN <<InstallCmd(ts[1])>> ELSE <<>>)
         \o InstallsOfAbsent(Tail(ts))

\* each tool's probe, followed by its install if it was probed absent
RECURSIVE ProbesAndInstalls(_)
ProbesAndInstalls(ts) ==
    IF ts = <<>> THEN <<>>
    ELSE <<ProbeCmd(ts[1])>>
         \o (IF ProbedAbsent(ts[1]) THEN <<InstallCmd(ts[1])>> ELSE <<>>)
         \o ProbesAndInstalls(Tail(ts))

NumAbsent == Cardinality({t \in ToolSet : ProbedAbsent(t)})

\* C5 as claimed, for the runs that end with the apply command over (so
\* container start succeeded, apt was found and every install issued
\* succeeded): the remote commands issued after container start are one
\* install command per tool probed absent followed by one apply command,
\* 1 remote command when all three tools are present, 4 when all are absent.
C5_Original ==
    (pc = Done /\ \E i \in ApplyCalls : calls[i].outcome.state = "exited") =>
        /\ AfterStart = InstallsOfAbsent(Tools) \o <<ApplyCmd>>
        /\ Len(AfterStart) = NumAbsent + 1

\* C5, amended: in any run that gets to the apply command (container start
\* succeeded, apt was found, every install issued succeeded), the remote
\* commands issued after container start are the four probes (apt, curl,
\* nix, home-manager), each tool's install command right after its probe if
\* and only if the probe said absent, and then exactly one apply command,
\* whether it succeeds or fails.  The commands other than probes are one
\* install per tool probed absent followed by one apply: 1 of 5 remote calls
\* when all three tools are present, 4 of 8 when all are absent.
C5_RemoteCommands ==
    ApplyCalls # {} =>
        /\ AfterStart = <<ProbeCmd("apt")>> \o ProbesAndInstalls(Tools) \o <<ApplyCmd>>
        /\ SelectSeq(AfterStart, LAMBDA c : ~IsAnyProbe(c))
              = InstallsOfAbsent(Tools) \o <<ApplyCmd>>
        /\ Len(AfterStart) = 4 + NumAbsent + 1
        /\ NumAbsent = 0 => Len(AfterStart) = 5
        /\ NumAbsent = 3 => Len(AfterStart) = 8

\* all three tools absent, three installs that succeed, the apply fails
C5_Witness ==
    /\ pc = Done
    /\ NumAbsent = 3
    /\ \E i \in ApplyCalls : ExitedWith(calls[i], FALSE)
    /\ Len(calls) = 9

\* C6: when container start succeeded and the probe for apt is negative, the
\* run is over and has failed with the unsupported-package-manager message
\* as its last line; the apt probe was made once, and nothing was issued
\* after it: no other probe, no install, no apply.
C6_Unsupported ==
    \A i \in ProbeCalls("apt") :
        ExitedWith(calls[i], FALSE) =>
            /\ pc = Done
            /\ ~Completed
            /\ echoed[Len(echoed)] = "System doesn't contain supported package manager!"
            /\ ProbeCalls("apt") = {i}
            /\ Len(calls) = 2
            /\ IsStartCmd(calls[1].cmd) /\ ExitedWith(calls[1], TRUE)
            /\ \A t \in ToolSet : InstallCalls(t) = {} /\ ProbeCalls(t) = {}
            /\ ApplyCalls = {}

\* a run stopped by a negative apt probe
C6_Witness == pc = Done /\ ProbedAbsent("apt") /\ Len(echoed) = 4

\* every step returned zero: container start, the apt probe, each install
\* that was issued, and the apply
AllZero ==
    /\ \E i \in StartCalls : ExitedWith(calls[i], TRUE)
    /\ ProbedPresent("apt")
    /\ \A t \in ToolSet : \A i \in InstallCalls(t) : ExitedWith(calls[i], TRUE)
    /\ \E i \in ApplyCalls : ExitedWith(calls[i], TRUE)

\* C7: the completion message is printed, and the run ends normally, exactly
\* when container start returned zero, the apt probe was positive, every
\* install issued returned zero and the apply returned zero; once the apply
\* is over its status alone decides between success and failure.
C7_Success ==
    /\ Completed <=> AllZero
    /\ Completed => (pc = Done /\ exc = NoExc /\ exitStatus = 0
                     /\ echoed[Len(echoed)] = CompletedMsg)
    /\ \A i \in ApplyCalls :
          calls[i].outcome.state # "running" =>
              (Completed <=> ExitedWith(calls[i], TRUE))

\* a successful run in which nix had to be installed
C7_Witness == Completed /\ ProbedAbsent("nix") /\ ProbedPresent("hm")

FailureMessages == {"Failed to run container!",
                    "System doesn't contain supported package manager!"}

\* C8 as claimed: a run that ended because a step failed (container start,
\* the apt probe, an install or the apply) has printed a failure message.
C8_FailureMessage ==
    (pc = Done /\ StepFailed) =>
        \E k \in DOMAIN echoed : echoed[k] \in FailureMessages

\* C9 as claimed: every run that ended because a step failed ends the
\* process the same way.  A run that fails at container start returns from
\* the command (exit status 0, no exception), so that is the way all of
\* them would have to end.
C9_SameEnding ==
    (pc = Done /\ StepFailed) => (exitStatus = 0 /\ exc = NoExc)

\* C10 as claimed: a call never ends with an exception leaving run_command;
\* every failure to run the command shows as a non-zero exit status.
C10_NoException ==
    /\ \A i \in Idx : calls[i].outcome.state \in {"running", "exited"}
    /\ exc.type # "FileNotFoundError"

----------------------------------------------------------------------------
\* The arguments of the calls

RECURSIVE CountIn(_, _)
\* how many times x occurs in the sequence s
CountIn(x, s) ==
    IF s = <<>> THEN 0
    ELSE (IF s[1] = x THEN 1 ELSE 0) + CountIn(x, Tail(s))

\* the argv passes `--remote-env value` (at least once)
CarriesEnv(cmd, value) ==
    \E k \in 1..(Len(cmd) - 1) : cmd[k] = "--remote-env" /\ cmd[k + 1] = value

\* C11: the toggle NIX_CONFIG=experimental-features = nix-command flakes is
\* passed as a remote environment variable to the apply command and to no
\* other call: `devcontainer up`, the probes and the installs carry no
\* --remote-env argument, and the apply carries exactly this one.
C11_EnvOnApplyOnly ==
    \A i \in Idx :
        IF IsApplyCmd(calls[i].cmd)
        THEN /\ CountIn("--remote-env", calls[i].cmd) = 1
             /\ CarriesEnv(calls[i].cmd,
                           "NIX_CONFIG=experimental-features = nix-command flakes")
        ELSE CountIn("--remote-env", calls[i].cmd) = 0

\* the apply has been issued after an install of home-manager
C11_Witness ==
    /\ ApplyCalls # {}
    /\ InstallCalls("hm") # {}
    /\ pc = <<"apply_wait", "-">>

\* C12: a run that passed validation and has begun makes exactly one
\* container start call, as its first external call, with
\* --remove-existing-container if and only if --purge was given; when that
\* call ends non-zero the run is over, failed, with the container-start
\* message as its last line and no other call made (no probe, no remote
\* command, no cleanup).
C12_ContainerStart ==
    (ParseOver /\ exc.type # "BadParameter" /\ pc # <<"start", "-">>) =>
        /\ StartCalls = {1}
        /\ calls[1].cmd[1] = "devcontainer" /\ calls[1].cmd[2] = "up"
        /\ InSeq("--remove-existing-container", calls[1].cmd) <=> args.purge
        /\ ExitedWith(calls[1], FALSE) =>
              /\ pc = Done
              /\ Len(calls) = 1
              /\ ~Completed
              /\ echoed[Len(echoed)] = "Failed to run container!"

\* a purging run whose container start failed
C12_Witness ==
    /\ args.purge
    /\ pc = Done
    /\ calls # <<>> /\ ExitedWith(calls[1], FALSE)

----------------------------------------------------------------------------
\* The two validators on their own: a run of the option callbacks alone,
\* with one source option given and its value drawn from a family of strings

\* longest host (for --repo) and longest reference (for --github) tried
MaxHost == 2
MaxRef == 4

SeqsUpTo(alphabet, n) == UNION { [1..k -> alphabet] : k \in 0..n }

\* the examples of the specification
UrlExamples ==
    { <<"h","t","t","p","s",":","/","/","e","x","a","m","p","l","e",".","c","o","m">>,
      <<"h","t","t","p",":","/","/","s","u","b",".","e","x","a","m","p","l","e",".","c","o","/","p","a","t","h">>,
      <<"f","t","p",":","/","/","x",".","c","o","m">>,
      <<"n","o","t","-","a","-","u","r","l">>,
      <<"h","t","t","p","s",":","/","/","n","o","h","o","s","t">> }
GithubExamples ==
    { <<"o","c","t","o","c","a","t","/","h","e","l","l","o","-","w","o","r","l","d">>,
      <<"o","c","t","o","c","a","t">>,
      <<"o","c","t","o","c","a","t","/">>,
      <<"/","h","e","l","l","o","-","w","o","r","l","d">>,
      <<"o","c","t","o","c","a","t","/","h","e","l","l","o"," ","w","o","r","l","d">> }

UrlSchemes == { <<"h","t","t","p">>, <<"h","t","t","p","s">>, <<"f","t","p">>, <<>> }
UrlTails == { <<>>, <<"/">>, <<"/","x">>, <<"\n">>, <<"/","x","\n">>,
              <<"/","\n","x">>, <<"?","x">>, <<":","8">> }

\* ends of a host: nothing, or a dot and a would-be top-level label
UrlLabels == { <<>>, <<".","a">>, <<".","i","o">>, <<".","i","O">>,
               <<".","o","r","g">>, <<".","i","1">> }

UrlTests ==
    UrlExamples \cup
    { scheme \o <<":","/","/">> \o host \o label \o tail :
        scheme \in UrlSchemes,
        host \in SeqsUpTo({"a", "Z", ".", " "}, MaxHost),
        label \in UrlLabels,
        tail \in UrlTails }

GithubTests ==
    GithubExamples \cup
    { ref \o tail : ref \in SeqsUpTo({"a", "/", ".", " "}, MaxRef),
                    tail \in { <<>>, <<"\n">> } }

InitValidate ==
    /\ args \in { a \in [cmdline : { <<"repo">>, <<"github">> },
                         repo : UrlTests \cup {None},
                         github : GithubTests \cup {None},
                         config : {"dev"},
                         purge : {FALSE},
                         workspace_dir : Workspaces] :
                    /\ (a.repo = None) <=> ~InSeq("repo", a.cmdline)
                    /\ (a.github = None) <=> ~InSeq("github", a.cmdline) }
    /\ params = <<>>
    /\ pc = <<"parse", "-">>
    /\ calls = <<>>
    /\ echoed = <<>>
    /\ exc = NoExc
    /\ exitStatus = -1

SpecValidate == InitValidate /\ [][ProcessParam]_vars

\* the index of the first x in s, or Len(s) + 1
FirstIndex(x, s) ==
    IF InSeq(x, s) THEN CHOOSE i \in 1..Len(s) : s[i] = x /\ \A j \in 1..(i-1) : s[j] # x
    ELSE Len(s) + 1

\* the index of the last x in s, or 0
LastIndex(x, s) ==
    IF InSeq(x, s) THEN CHOOSE i \in 1..Len(s) : s[i] = x /\ \A j \in (i+1)..Len(s) : s[j] # x
    ELSE 0

\* a host: word characters, dots and hyphens, with something before its last
\* dot and a last label of two or more lower-case letters
HostShape(h) ==
    LET d == LastIndex(".", h) IN
    /\ \A k \in 1..Len(h) : h[k] \in HostChar
    /\ d > 1
    /\ Len(h) - d >= 2
    /\ \A k \in (d+1)..Len(h) : h[k] \in Lower

\* a path: nothing, or a slash followed by anything on the same line
PathShape(p) == p = <<>> \/ (p[1] = "/" /\ ~InSeq("\n", p))

\* the shape of an accepted URL, in the words of the specification: scheme
\* http or https, a host with a dot and a top-level label, an optional path
UrlShape(s) ==
    \E scheme \in { <<"h","t","t","p">>, <<"h","t","t","p","s">> } :
        LET pre == scheme \o <<":","/","/">> IN
        /\ HasPrefix(s, pre)
        /\ LET r == SubSeq(s, Len(pre) + 1, Len(s))
               cut == FirstIndex("/", r)
           IN  /\ HostShape(SubSeq(r, 1, cut - 1))
               /\ PathShape(SubSeq(r, cut, Len(r)))

\* the shape of an accepted repo reference: two non-empty segments of
\* [A-Za-z0-9_.-] with a single slash between them
GithubShape(s) ==
    /\ CountIn("/", s) = 1
    /\ LET cut == FirstIndex("/", s) IN
       /\ cut > 1 /\ cut < Len(s)
       /\ \A k \in 1..Len(s) : k # cut => s[k] \in GithubChar

\* C13 as claimed: a value given for --repo is accepted exactly when it has
\* the shape of a URL (scheme http or https, host with a dot and a top-level
\* label of two or more letters, optional path), and is otherwise rejected
\* with InvalidFormat.
C13_UrlAccepted ==
    (ParseOver /\ Given("repo") /\ ~Given("github")) =>
        /\ ValidSource <=> UrlShape(args.repo)
        /\ ~ValidSource => (InvalidFormat /\ exc.msg = MsgInvalidUrl)

\* C14 as claimed: a value given for --github is accepted exactly when it is
\* two non-empty segments of [A-Za-z0-9_.-] separated by a single slash, and
\* is otherwise rejected with InvalidFormat.
C14_GithubAccepted ==
    (ParseOver /\ Given("github") /\ ~Given("repo")) =>
        /\ ValidSource <=> GithubShape(args.github)
        /\ ~ValidSource => (InvalidFormat /\ exc.msg = MsgInvalidGithub)

----------------------------------------------------------------------------
\* The orchestrator's states

\* every external call returns and the program takes its next step
FairSpec == Spec /\ WF_vars(Next)

ToolIndex(t) == CHOOSE k \in 1..Len(Tools) : Tools[k] = t

\* the position in the program, as a number that grows along the source;
\* while the options are processed, the number of options processed
PcRank(p, ctxparams) ==
    LET stage == p[1] IN
    IF stage = "parse" THEN Cardinality(DOMAIN ctxparams)
    ELSE IF stage = "start" THEN 2
    ELSE IF stage = "start_wait" THEN 3
    ELSE IF stage = "apt" THEN 4
    ELSE IF stage = "apt_wait" THEN 5
    ELSE IF stage \in {"probe", "probe_wait", "install", "install_wait"}
    THEN 4 * ToolIndex(p[2])
         + (IF stage = "probe" THEN 2 ELSE IF stage = "probe_wait" THEN 3
            ELSE IF stage = "install" THEN 4 ELSE 5)
    ELSE IF stage = "apply" THEN 4 * Len(Tools) + 6
    ELSE IF stage = "apply_wait" THEN 4 * Len(Tools) + 7
    ELSE 4 * Len(Tools) + 8

\* the state of the specification's state machine that a position stands for
OrchState(p, lines) ==
    LET stage == p[1] IN
    IF stage \in {"parse", "start", "start_wait"} THEN "NotStarted"
    ELSE IF stage \in {"apt", "apt_wait"} THEN "ContainerReady"
    ELSE IF stage \in {"probe", "probe_wait", "install", "install_wait"}
    THEN (IF p[2] = "hm" THEN "PackageManagerReady" ELSE "DependenciesChecked")
    ELSE IF stage \in {"apply", "apply_wait"} THEN "ConfigManagerReady"
    ELSE IF \E k \in DOMAIN lines : lines[k] = CompletedMsg THEN "Completed"
    ELSE "Failed"

OrchOrder == <<"NotStarted", "ContainerReady", "DependenciesChecked",
               "PackageManagerReady", "ConfigManagerReady",
               "ConfigurationApplied", "Completed">>

OrchRank(state) == CHOOSE k \in 1..Len(OrchOrder) : OrchOrder[k] = state

\* C15: every step moves the program forward: the orchestrator's state stays
\* or advances along NotStarted .. Completed, or becomes Failed, and never
\* comes back; no command is run twice (no retry); nothing happens after
\* Completed or Failed; and, every external call returning, every run ends
\* in Completed or Failed.
C15_Forward ==
    /\ [][ /\ PcRank(pc', params') > PcRank(pc, params)
           /\ OrchState(pc, echoed) \notin {"Completed", "Failed"}
           /\ OrchState(pc', echoed') # "Failed" =>
                 OrchRank(OrchState(pc', echoed')) >= OrchRank(OrchState(pc, echoed))
         ]_vars
    /\ [](\A i, j \in Idx : calls[i].cmd = calls[j].cmd => i = j)
    /\ <>(pc = Done /\ OrchState(pc, echoed) \in {"Completed", "Failed"})

\* a run that installed all three tools and completed
C15_Witness == Completed /\ pc = Done /\ NumAbsent = 3

----------------------------------------------------------------------------
\* Blocking calls

RunningCalls == {i \in Idx : calls[i].outcome.state = "running"}

WaitStages == {"start_wait", "apt_wait", "probe_wait", "install_wait", "apply_wait"}

\* C16: at most one external command is in flight at any time, and it is the
\* one issued last; while it runs the program is waiting for it (it issues
\* nothing else), and a call is only issued when the result of every earlier
\* call is known.
C16_OneInFlight ==
    /\ Cardinality(RunningCalls) <= 1
    /\ RunningCalls \subseteq {Len(calls)}
    /\ (RunningCalls # {}) <=> (pc[1] \in WaitStages)

\* the install of nix is running, the calls before it are over
C16_Witness ==
    /\ pc = <<"install_wait", "nix">>
    /\ RunningCalls = {Len(calls)}
    /\ Len(calls) >= 5

----------------------------------------------------------------------------
\* The capability probe

\* C17: a probe is one remote call, with its output captured, never made
\* again; when it ends with status zero the tool counts as present and its
\* install is passed over, and when it ends with any non-zero status,
\* whatever the cause, the tool counts as absent: the very next call is that
\* tool's install command (for apt, the run stops).
C17_Probe ==
    /\ [][ \A t \in ToolSet :
             pc = <<"probe_wait", t>> =>
                /\ Len(calls') = Len(calls)
                /\ LET o == calls'[Len(calls')].outcome IN
                   o.state = "exited" =>
                      IF o.returncode = 0
                      THEN pc'[1] \in {"probe", "apply"} /\ pc'[2] # t
                      ELSE pc' = <<"install", t>>
         ]_vars
    /\ [](\A t \in AllTools :
             /\ Cardinality(ProbeCalls(t)) <= 1
             /\ \A i \in ProbeCalls(t) :
                   /\ calls[i].capture_output
                   /\ (t # "apt" /\ ExitedWith(calls[i], FALSE) /\ Len(calls) > i)
                         => calls[i + 1].cmd = InstallCmd(t)
                   /\ (t # "apt" /\ ExitedWith(calls[i], TRUE) /\ Len(calls) > i)
                         => ~IsAnyInstall(calls[i + 1].cmd)
                   /\ (t = "apt" /\ ExitedWith(calls[i], FALSE))
                         => Len(calls) = i /\ pc = Done)

\* the probe for nix ended with the highest status there is, not 1, and the
\* install of nix was issued next
C17_Witness ==
    \E i \in ProbeCalls("nix") :
        /\ calls[i].outcome = Exited(MaxRet)
        /\ Len(calls) = i + 1
        /\ calls[i + 1].cmd = InstallCmd("nix")

----------------------------------------------------------------------------
\* The order of probes and installs

Cmds == [i \in Idx |-> calls[i].cmd]

IsPrefix(s, t) == Len(s) <= Len(t) /\ s = SubSeq(t, 1, Len(s))

ProbeOrder == <<ProbeCmd("apt"), ProbeCmd("curl"), ProbeCmd("nix"), ProbeCmd("hm")>>

\* C18: the probes made so far are, in order, the first ones of apt, curl,
\* nix, home-manager, each made once; an install command comes right after
\* the probe of its own tool, which said absent, and has ended with status
\* zero before anything else is called; its tool is not probed again, the
\* program being past that tool as soon as the install has ended with zero;
\* and the apply comes last, after the probe of home-manager has ended and
\* after the install of home-manager if there is one.
C18_Ordering ==
    /\ IsPrefix(SelectSeq(Cmds, IsAnyProbe), ProbeOrder)
    /\ \A t \in ToolSet : \A i \in InstallCalls(t) :
          /\ i > 1
          /\ calls[i - 1].cmd = ProbeCmd(t)
          /\ ExitedWith(calls[i - 1], FALSE)
          /\ \A j \in Idx : j > i =>
                /\ ExitedWith(calls[i], TRUE)
                /\ calls[j].cmd # ProbeCmd(t)
          /\ ExitedWith(calls[i], TRUE) =>
                pc \notin {<<"probe", t>>, <<"probe_wait", t>>,
                           <<"install", t>>, <<"install_wait", t>>}
    /\ \A i \in ApplyCalls :
          /\ i = Len(calls)
          /\ \E j \in ProbeCalls("hm") : j < i /\ calls[j].outcome.state = "exited"
          /\ \A k \in InstallCalls("hm") : k < i /\ ExitedWith(calls[k], TRUE)

\* curl present, nix and home-manager installed, the apply issued
C18_Witness ==
    /\ ApplyCalls # {}
    /\ ProbedPresent("curl")
    /\ InstallCalls("nix") # {} /\ InstallCalls("hm") # {}
    /\ Len(calls) = 8

----------------------------------------------------------------------------
\* Mutual exclusion and the order of the options

BothWellFormed ==
    /\ Given("repo") /\ WellFormed("repo")
    /\ Given("github") /\ WellFormed("github")

NeitherGiven == ~Given("repo") /\ ~Given("github")

\* the callback that ran first has stored its value, the second has raised
RaisedBySecond == DOMAIN params = {ProcessingOrder(args)[1]}

\* C19: once the options are processed, a command line with a well-formed
\* URL and a well-formed repo reference has been rejected with
\* ConflictingSources, in either order of the two options, and a command line
\* with neither has been rejected with MissingSource; either rejection was
\* raised by the callback that ran second, the first one having passed.
C19_OrderIndependent ==
    ParseOver =>
       /\ BothWellFormed => ConflictingSources
       /\ NeitherGiven => MissingSource
       /\ (ConflictingSources \/ MissingSource) => RaisedBySecond

\* --github given before --repo, both well-formed: rejected by --repo's callback
C19_Witness ==
    /\ ParseOver
    /\ args.cmdline = <<"github", "repo">>
    /\ BothWellFormed
    /\ ConflictingSources
    /\ DOMAIN params = {"github"}

----------------------------------------------------------------------------
\* The source used by the apply

\* the option that names the source of this run
SourceOption == IF Given("github") THEN "github" ELSE "repo"

\* the source has the shape the specification gives for its kind
SourceShape ==
    IF SourceOption = "github" THEN GithubShape(args.github)
    ELSE UrlShape(args.repo)

\* the flake reference the specification gives for the source
FlakeRef ==
    IF SourceOption = "github" THEN "github:" \o Join(args.github)
    ELSE Join(args.repo)

\* C20 as claimed: when the apply is called, exactly one of the two source
\* options was given, its value is not empty and has the shape of its kind,
\* and the one apply command has github:<owner/repo>, or the URL itself, as
\* its flake reference, the configuration name after the "#" and -b backup.
C20_ApplySource ==
    \A i \in ApplyCalls :
        /\ Cardinality(ApplyCalls) = 1
        /\ Given("repo") # Given("github")
        /\ args[SourceOption] \notin {None, <<>>}
        /\ SourceShape
        /\ calls[i].cmd =
              devcontainer_exec(args.workspace_dir,
                  "nix run --inputs-from " \o FlakeRef
                  \o " home-manager -- switch --flake " \o FlakeRef
                  \o "#" \o args.config \o " -b backup",
                  nix_env)

====
